---- MODULE Spec2Model ----
(***************************************************************************)
(* Model of rename_pdfs.py: a batch renamer of PDF files.  For each        *)
(* enumerated file, main calls rename_pdf, which extracts text, asks a     *)
(* language model for title and author, repairs and parses the reply,      *)
(* synthesizes "<author> - <title>.pdf", probes for a free path and        *)
(* renames.                                                                *)
(*                                                                         *)
(* Python strings are sequences of one-character strings; None is the      *)
(* one-element sequence <<"None">>, which no character sequence equals.    *)
(***************************************************************************)
EXTENDS Integers, Sequences, FiniteSets, TLC

None == <<"None">>

\* ------------------------------------------------------------------------
\* Characters and the str methods the program uses
\* ------------------------------------------------------------------------
Lowers == <<"a", "b", "c", "d", "e", "f", "g", "h", "i", "j", "k", "l", "m", "n", "o", "p", "q", "r", "s", "t", "u", "v", "w", "x", "y", "z">>
Uppers == <<"A", "B", "C", "D", "E", "F", "G", "H", "I", "J", "K", "L", "M", "N", "O", "P", "Q", "R", "S", "T", "U", "V", "W", "X", "Y", "Z">>
Digits == <<"0", "1", "2", "3", "4", "5", "6", "7", "8", "9">>

Range(s) == {s[i] : i \in DOMAIN s}
IndexOf(c, s) == CHOOSE i \in DOMAIN s : s[i] = c

\* str.isalnum on one character (ASCII letters and digits)
AlnumChars == Range(Lowers) \cup Range(Uppers) \cup Range(Digits)
isalnum(c) == c \in AlnumChars
\* the regular-expression class \w
IsWord(c) == isalnum(c) \/ c = "_"
\* the regular-expression class \s, also what str.strip removes
IsSpace(c) == c \in {" ", "\n", "\t", "\r"}

UpperSet == Range(Uppers)
LowerSet == Range(Lowers)
LowerChar(c) == IF c \in UpperSet THEN Lowers[IndexOf(c, Uppers)] ELSE c
UpperChar(c) == IF c \in LowerSet THEN Uppers[IndexOf(c, Lowers)] ELSE c

\* str.lower
lower(s) == [i \in DOMAIN s |-> LowerChar(s[i])]
\* str.capitalize: first character upper-cased, the rest lower-cased
capitalize(s) == [i \in DOMAIN s |-> IF i = 1 THEN UpperChar(s[i]) ELSE LowerChar(s[i])]

\* s[:n]
Take(s, n) == SubSeq(s, 1, IF Len(s) < n THEN Len(s) ELSE n)
\* s[n:] with n counted from 1 (the suffix starting at position n)
From(s, n) == SubSeq(s, n, Len(s))

RECURSIVE lstrip(_)
lstrip(s) == IF s # <<>> /\ IsSpace(Head(s)) THEN lstrip(Tail(s)) ELSE s
RECURSIVE rstrip(_)
rstrip(s) == IF s # <<>> /\ IsSpace(s[Len(s)]) THEN rstrip(SubSeq(s, 1, Len(s) - 1)) ELSE s
\* str.strip
strip(s) == rstrip(lstrip(s))

\* str.endswith
endswith(s, suf) == Len(s) >= Len(suf) /\ SubSeq(s, Len(s) - Len(suf) + 1, Len(s)) = suf

\* Python truthiness of an Optional[str]
Truthy(s) == s # None /\ s # <<>>
\* the Python expression "a or b" on strings
PyOr(a, b) == IF a # <<>> THEN a ELSE b

\* str(counter) for a non-negative integer
RECURSIVE str(_)
str(n) == IF n < 10 THEN <<Digits[n + 1]>> ELSE str(n \div 10) \o <<Digits[(n % 10) + 1]>>

\* ------------------------------------------------------------------------
\* title_case (lines 132-146)
\* ------------------------------------------------------------------------
exceptions ==
    { <<"a">>, <<"a", "n">>, <<"a", "n", "d">>, <<"a", "s">>, <<"a", "t">>, <<"b", "u", "t">>, <<"b", "y">>, <<"f", "o", "r">>, <<"i", "f">>,
      <<"i", "n">>, <<"o", "f">>, <<"o", "n">>, <<"o", "r">>, <<"t", "h", "e">>, <<"t", "o">>, <<"w", "i", "t", "h">> }

IsTokChar(c) == IsWord(c) \/ c = "'"
IsPunct(c) == c \in {".", ",", "!", "?", ";"}

\* length of the longest prefix of s made of token characters
RECURSIVE TokRun(_)
TokRun(s) == IF s # <<>> /\ IsTokChar(Head(s)) THEN 1 + TokRun(Tail(s)) ELSE 0

\* re.findall(r"[\w']+|[.,!?;]", s): the sequence of tokens, left to right
RECURSIVE findall_words(_)
findall_words(s) ==
    IF s = <<>> THEN <<>>
    ELSE IF IsTokChar(Head(s))
         THEN <<Take(s, TokRun(s))>> \o findall_words(From(s, TokRun(s) + 1))
    ELSE IF IsPunct(Head(s)) THEN <<<<Head(s)>>>> \o findall_words(Tail(s))
    ELSE findall_words(Tail(s))

\* " ".join(words)
RECURSIVE join_space(_)
join_space(ws) ==
    IF ws = <<>> THEN <<>>
    ELSE IF Len(ws) = 1 THEN ws[1]
    ELSE ws[1] \o <<" ">> \o join_space(Tail(ws))

title_case(s) ==
    IF ~Truthy(s) THEN s
    ELSE LET word_list == findall_words(lower(s))
         IN join_space([i \in DOMAIN word_list |->
                          IF i = 1 \/ word_list[i] \notin exceptions
                          THEN capitalize(word_list[i])
                          ELSE word_list[i]])

\* ------------------------------------------------------------------------
\* clean_filename (lines 148-158)
\* ------------------------------------------------------------------------
MaxNameLen == 100

KeepChar(c) == isalnum(c) \/ c \in {" ", "-", "_"}

clean_filename(text) ==
    IF Truthy(text)
    THEN strip(Take(SelectSeq(text, KeepChar), MaxNameLen))
    ELSE <<"U", "n", "k", "n", "o", "w", "n">>

\* ------------------------------------------------------------------------
\* refine_with_llama3: locating, repairing and parsing the reply (lines 104-130)
\* ------------------------------------------------------------------------
Positions(c, s) == {i \in DOMAIN s : s[i] = c}
MinOf(S) == CHOOSE m \in S : \A n \in S : m <= n
MaxOf(S) == CHOOSE m \in S : \A n \in S : n <= m

\* re.search(r'\{.*\}', content, re.DOTALL): the span from the first "{" to
\* the last "}" after it, or None when there is no such pair
search_braces(content) ==
    LET opens == Positions("{", content)
        closes == Positions("}", content)
    IN IF opens # {} /\ closes # {} /\ MinOf(opens) < MaxOf(closes)
       THEN SubSeq(content, MinOf(opens), MaxOf(closes))
       ELSE None

\* line 113: re.sub(r'(?<!\\)"([^"]*?)"(?=\s*:)', r'"\1"', json_str).  Every
\* match is a quote, the group, a quote (the lookarounds consume nothing)
\* and is replaced by a quote, the group, a quote: the text is unchanged.
requote_keys(json_str) == json_str

\* line 114: json_str.replace("'", '"')
replace_quotes(json_str) ==
    [i \in DOMAIN json_str |-> IF json_str[i] = "'" THEN "\"" ELSE json_str[i]]

RECURSIVE WordRun(_)
WordRun(s) == IF s # <<>> /\ IsWord(Head(s)) THEN 1 + WordRun(Tail(s)) ELSE 0
RECURSIVE SpaceRun(_)
SpaceRun(s) == IF s # <<>> /\ IsSpace(Head(s)) THEN 1 + SpaceRun(Tail(s)) ELSE 0

\* line 115: re.sub(r'(\w+):', r'"\1":', json_str).  A match is a maximal run
\* of word characters directly followed by a colon; no match starts inside a
\* run that is not followed by a colon.
RECURSIVE quote_words(_)
quote_words(s) ==
    IF s = <<>> THEN <<>>
    ELSE IF IsWord(Head(s))
         THEN LET n == WordRun(s)
              IN IF n < Len(s) /\ s[n + 1] = ":"
                 THEN <<"\"">> \o Take(s, n) \o <<"\"", ":">> \o quote_words(From(s, n + 2))
                 ELSE Take(s, n) \o quote_words(From(s, n + 1))
    ELSE <<Head(s)>> \o quote_words(Tail(s))

\* line 116: re.sub(r',\s*}', '}', json_str)
RECURSIVE strip_trailing_commas(_)
strip_trailing_commas(s) ==
    IF s = <<>> THEN <<>>
    ELSE IF Head(s) = ","
         THEN LET n == SpaceRun(Tail(s))
              IN IF n + 2 <= Len(s) /\ s[n + 2] = "}"
                 THEN <<"}">> \o strip_trailing_commas(From(s, n + 3))
                 ELSE <<",">> \o strip_trailing_commas(Tail(s))
    ELSE <<Head(s)>> \o strip_trailing_commas(Tail(s))

\* lines 113-116 in order
repair(json_str) ==
    strip_trailing_commas(quote_words(replace_quotes(requote_keys(json_str))))

\* json.loads (line 118) on texts without backslashes, digits, brackets or
\* nested braces, which no reply of this model holds.  A JSON value is
\* <<"str", s>>, <<"null">>, <<"true">> or <<"false">>; a parse step returns
\* [ok, val, next] with next the position after what it consumed.
Fail == [ok |-> FALSE, val |-> <<"null">>, next |-> 0]

\* index of the first non-whitespace character at or after i
RECURSIVE SkipWs(_, _)
SkipWs(s, i) == IF i <= Len(s) /\ IsSpace(s[i]) THEN SkipWs(s, i + 1) ELSE i

HasAt(s, i, lit) == i + Len(lit) - 1 <= Len(s) /\ SubSeq(s, i, i + Len(lit) - 1) = lit

\* a string starting at the quote at position i: up to the next quote;
\* control characters and backslashes are not accepted inside
ParseString(s, i) ==
    LET ends == {j \in (i + 1)..Len(s) : s[j] = "\""}
    IN IF i > Len(s) \/ s[i] # "\"" \/ ends = {} THEN Fail
       ELSE LET j == MinOf(ends)
                body == SubSeq(s, i + 1, j - 1)
            IN IF \E k \in DOMAIN body : body[k] \in {"\n", "\t", "\r", "\\"}
               THEN Fail
               ELSE [ok |-> TRUE, val |-> <<"str", body>>, next |-> j + 1]

ParseValue(s, i) ==
    IF i > Len(s) THEN Fail
    ELSE IF s[i] = "\"" THEN ParseString(s, i)
    ELSE IF HasAt(s, i, <<"n", "u", "l", "l">>) THEN [ok |-> TRUE, val |-> <<"null">>, next |-> i + 4]
    ELSE IF HasAt(s, i, <<"t", "r", "u", "e">>) THEN [ok |-> TRUE, val |-> <<"true">>, next |-> i + 4]
    ELSE IF HasAt(s, i, <<"f", "a", "l", "s", "e">>) THEN [ok |-> TRUE, val |-> <<"false">>, next |-> i + 5]
    ELSE Fail

\* the members of an object from position i (at a key), collected into dict;
\* a later duplicate of a key replaces the earlier one
RECURSIVE ParseMembers(_, _, _)
ParseMembers(s, i, dict) ==
    LET key == ParseString(s, i)
    IN IF ~key.ok THEN Fail
       ELSE LET c == SkipWs(s, key.next)
            IN IF c > Len(s) \/ s[c] # ":" THEN Fail
               ELSE LET v == ParseValue(s, SkipWs(s, c + 1))
                    IN IF ~v.ok THEN Fail
                       ELSE LET d == SkipWs(s, v.next)
                                dict2 == [k \in DOMAIN dict \cup {key.val[2]} |->
                                            IF k = key.val[2] THEN v.val ELSE dict[k]]
                            IN IF d > Len(s) THEN Fail
                               ELSE IF s[d] = "}"
                                    THEN [ok |-> TRUE, val |-> dict2, next |-> d + 1]
                               ELSE IF s[d] = ","
                                    THEN ParseMembers(s, SkipWs(s, d + 1), dict2)
                               ELSE Fail

EmptyDict == [k \in {} |-> <<"null">>]

ParseObject(s, i) ==
    IF i > Len(s) \/ s[i] # "{" THEN Fail
    ELSE LET j == SkipWs(s, i + 1)
         IN IF j <= Len(s) /\ s[j] = "}"
            THEN [ok |-> TRUE, val |-> EmptyDict, next |-> j + 1]
            ELSE ParseMembers(s, j, EmptyDict)

\* json.loads of a text that starts with "{": the dict, or a failure when
\* the text is no JSON document
json_loads(s) ==
    LET r == ParseObject(s, SkipWs(s, 1))
    IN IF r.ok /\ SkipWs(s, r.next) = Len(s) + 1 THEN r ELSE Fail

\* result.get(key): the JSON null when the key is missing
dict_get(dict, key) == IF key \in DOMAIN dict THEN dict[key] ELSE <<"null">>

\* lines 123-124: str(v) if v and v != "null" else None
str_or_none(v) ==
    IF v[1] = "str" /\ v[2] # <<>> /\ v[2] # <<"n", "u", "l", "l">> THEN v[2]
    ELSE IF v[1] = "true" THEN <<"T", "r", "u", "e">>
    ELSE None

\* line 126
cased_or_none(v) == IF Truthy(v) THEN title_case(v) ELSE None

\* lines 109-127: the reply's content to (title, author)
parse_reply(content) ==
    LET json_match == search_braces(content)
    IN IF json_match = None THEN <<None, None>>
       ELSE LET result == json_loads(repair(json_match))
            IN IF ~result.ok THEN <<None, None>>
               ELSE <<cased_or_none(str_or_none(dict_get(result.val, <<"t", "i", "t", "l", "e">>))),
                      cased_or_none(str_or_none(dict_get(result.val, <<"a", "u", "t", "h", "o", "r">>)))>>

\* ollama.chat raising instead of answering
ChatError == <<"ChatError">>

\* refine_with_llama3(text) when the model's answer is reply
refine_with_llama3(text, reply) ==
    IF ~Truthy(text) THEN <<None, None>>
    ELSE IF reply = ChatError THEN <<None, None>>
    ELSE parse_reply(reply)

\* whether refine_with_llama3(text) calls the model at all (line 104)
calls_model(text) == Truthy(text)

\* ------------------------------------------------------------------------
\* is_pdf_encrypted and extract_text_from_pdf (lines 35-91)
\* ------------------------------------------------------------------------
\* What the two backends do with a document: backend A (pdfplumber) opens it
\* and extracts, opens it and raises while extracting, or cannot open it;
\* backend B (PyPDF2) extracts, reports the encryption flag (and then raises
\* on reading pages), raises while extracting, or cannot open it.
BackendA == {"ok", "extract_fails", "open_fails"}
BackendB == {"ok", "encrypted", "extract_fails", "open_fails"}

\* the path is_pdf_encrypted takes through its two try blocks
probe_outcome(a, b) ==
    IF a # "open_fails" THEN "A_opens"
    ELSE IF b = "open_fails" THEN "B_open_fails"
    ELSE IF b = "encrypted" THEN "B_flag_set"
    ELSE "B_flag_clear"

is_pdf_encrypted_wrong(outcome) == outcome = "B_flag_set"
is_pdf_encrypted(outcome) == outcome \in {"B_flag_set", "B_open_fails"}

NoTextPlaceholder == <<"N", "o", " ", "t", "e", "x", "t", " ", "c", "o", "u", "l", "d", " ", "b", "e", " ", "e", "x", "t", "r", "a", "c", "t", "e", "d", " ", "f", "r", "o", "m", " ", "t", "h", "e", " ", "P", "D", "F", ".">>
ErrorPlaceholder == <<"E", "r", "r", "o", "r", " ", "e", "x", "t", "r", "a", "c", "t", "i", "n", "g", " ", "t", "e", "x", "t", " ", "f", "r", "o", "m", " ", "P", "D", "F", ".">>

\* the loop of lines 72-75 and 84-87 over pages[:2]
RECURSIVE join_pages(_)
join_pages(pages) ==
    IF pages = <<>> THEN <<>>
    ELSE (IF Head(pages) # <<>> THEN Head(pages) \o <<"\n">> ELSE <<>>)
         \o join_pages(Tail(pages))

PagesRead == 2

\* lines 76 and 88
pages_text(pages) == PyOr(strip(join_pages(Take(pages, PagesRead))), NoTextPlaceholder)

extract_text_from_pdf(a, b, pages) ==
    IF is_pdf_encrypted(probe_outcome(a, b)) THEN None
    ELSE IF a = "ok" THEN pages_text(pages)
    ELSE IF b = "ok" THEN pages_text(pages)
    ELSE ErrorPlaceholder

\* ------------------------------------------------------------------------
\* rename_pdf: the synthesized name and the collision probe (lines 176-190)
\* ------------------------------------------------------------------------
clean_title_of(title) == PyOr(clean_filename(title), <<"U", "n", "k", "n", "o", "w", "n", " ", "T", "i", "t", "l", "e">>)
clean_author_of(author) == PyOr(clean_filename(author), <<"U", "n", "k", "n", "o", "w", "n", " ", "A", "u", "t", "h", "o", "r">>)

\* line 178
new_name_of(title, author) ==
    clean_author_of(author) \o <<" ", "-", " ">> \o clean_title_of(title) \o <<".", "p", "d", "f">>

\* os.path.splitext on a file name: split at the last dot that has a
\* non-dot character before it
splitext(name) ==
    LET nondots == {j \in DOMAIN name : name[j] # "."}
        dots == IF nondots = {} THEN {}
                ELSE {i \in DOMAIN name : name[i] = "." /\ i > MinOf(nondots)}
    IN IF dots = {} THEN <<name, <<>>>>
       ELSE <<SubSeq(name, 1, MaxOf(dots) - 1), From(name, MaxOf(dots))>>

\* f"{base}_{counter}{ext}" of lines 183 and 185
suffixed(name, counter) ==
    splitext(name)[1] \o <<"_">> \o str(counter) \o splitext(name)[2]

\* os.path.exists(path) in the directory dir, asked on behalf of the file self
path_exists_not_self(path, dir, self) == path \in DOMAIN dir /\ path # self
path_exists_never(path, dir, self) == FALSE
path_exists(path, dir, self) == path \in DOMAIN dir

\* line 182
first_counter_zero == 1 - 1
first_counter == 1

\* line 187
should_rename(clean_author, clean_title) ==
    clean_author # <<"U", "n", "k", "n", "o", "w", "n">> \/ clean_title # <<"U", "n", "k", "n", "o", "w", "n", " ", "T", "i", "t", "l", "e">>

\* os.rename(src, dst) on a POSIX directory: dst is replaced when it exists
os_rename(dir, src, dst) ==
    [n \in (DOMAIN dir \ {src}) \cup {dst} |-> IF n = dst THEN dir[src] ELSE dir[n]]

\* ------------------------------------------------------------------------
\* The inputs of a run
\* ------------------------------------------------------------------------
\* the largest directory
MaxFiles == 2
\* the most pages of a document
MaxPages == 3

\* names a directory may hold; a document is identified by its index here
Pool ==
    << <<"a", ".", "p", "d", "f">>,
       <<"J", "a", "n", "e", " ", "D", "o", "e", " ", "-", " ", "D", "e", "e", "p", " ", "L", "e", "a", "r", "n", "i", "n", "g", ".", "p", "d", "f">>,
       <<"J", "a", "n", "e", " ", "D", "o", "e", " ", "-", " ", "D", "e", "e", "p", " ", "L", "e", "a", "r", "n", "i", "n", "g", "_", "1", ".", "p", "d", "f">>,
       <<"U", "n", "k", "n", "o", "w", "n", " ", "-", " ", "U", "n", "k", "n", "o", "w", "n", ".", "p", "d", "f">>,
       <<"n", "o", "t", "e", "s", ".", "t", "x", "t">> >>

Directories ==
    {[n \in {Pool[i] : i \in S} |-> IndexOf(n, Pool)] :
        S \in {T \in SUBSET DOMAIN Pool : Cardinality(T) <= MaxFiles}}

PageTexts == {<<>>, <<"D", "e", "e", "p", " ", "L", "e", "a", "r", "n", "i", "n", "g", " ", "b", "y", " ", "J", "a", "n", "e", " ", "D", "o", "e">>}
Pages == UNION {[1..n -> PageTexts] : n \in 0..MaxPages}

\* what a document can be to the program: the path the encryption probe takes
\* on it and the text extraction returns for it
Documents ==
    {<<probe_outcome(a, b), extract_text_from_pdf(a, b, pages)>> :
        a \in BackendA, b \in BackendB, pages \in Pages}

\* what the model may answer
Replies ==
    { ChatError,
      <<"I", " ", "c", "a", "n", "n", "o", "t", " ", "t", "e", "l", "l", ".">>,
      <<"{", "t", "i", "t", "l", "e", "}">>,
      <<"{", "t", "i", "t", "l", "e", ":", " ", "'", "D", "e", "e", "p", " ", "L", "e", "a", "r", "n", "i", "n", "g", "'", ",", " ", "a", "u", "t", "h", "o", "r", ":", " ", "'", "J", "a", "n", "e", " ", "D", "o", "e", "'", "}">>,
      <<"{", "\"", "t", "i", "t", "l", "e", "\"", ":", " ", "n", "u", "l", "l", ",", " ", "\"", "a", "u", "t", "h", "o", "r", "\"", ":", " ", "\"", "J", "a", "n", "e", " ", "D", "o", "e", "\"", "}">>,
      <<"{", "\"", "t", "i", "t", "l", "e", "\"", ":", " ", "\"", "D", "e", "e", "p", " ", "L", "e", "a", "r", "n", "i", "n", "g", "\"", ",", " ", "\"", "a", "u", "t", "h", "o", "r", "\"", ":", " ", "n", "u", "l", "l", "}">>,
      <<"{", "\"", "t", "i", "t", "l", "e", "\"", ":", " ", "n", "u", "l", "l", ",", " ", "\"", "a", "u", "t", "h", "o", "r", "\"", ":", " ", "n", "u", "l", "l", "}">>,
      <<"{", "\"", "t", "i", "t", "l", "e", "\"", ":", " ", "\"", "?", "\"", ",", " ", "\"", "a", "u", "t", "h", "o", "r", "\"", ":", " ", "n", "u", "l", "l", "}">> }

\* Replies whose {...} span is an object with string values for title and
\* author: keys written with key_quote around them (none for a bare word),
\* values with value_quote, an optional trailing comma, optional text around
MaxValLen == 2
ValueChars == {"a", " ", ":", "'"}
Values == UNION {[1..n -> ValueChars] : n \in 1..MaxValLen}

ObjectReplies ==
    {r \in [key_quote : {<<"\"">>, <<"'">>, <<>>}, value_quote : {<<"\"">>, <<"'">>},
            comma : {<<>>, <<",">>}, wrapped : BOOLEAN, title : Values, author : Values] :
        \* a single-quoted value holds no single quote
        r.value_quote = <<"'">> => "'" \notin Range(r.title) \cup Range(r.author)}

NoReply ==
    [key_quote |-> <<>>, value_quote |-> <<>>, comma |-> <<>>, wrapped |-> FALSE,
     title |-> <<>>, author |-> <<>>]

\* the text of such a reply
render(r) ==
    (IF r.wrapped THEN <<"H", "e", "r", "e", ":", " ">> ELSE <<>>)
    \o <<"{">> \o r.key_quote \o <<"t", "i", "t", "l", "e">> \o r.key_quote \o <<":", " ">>
    \o r.value_quote \o r.title \o r.value_quote \o <<",", " ">>
    \o r.key_quote \o <<"a", "u", "t", "h", "o", "r">> \o r.key_quote \o <<":", " ">>
    \o r.value_quote \o r.author \o r.value_quote \o r.comma \o <<"}">>
    \o (IF r.wrapped THEN <<" ", "o", "k">> ELSE <<>>)

\* the orders os.listdir may return names in
Orderings(S) ==
    {f \in [1..Cardinality(S) -> S] : \A i, j \in DOMAIN f : i # j => f[i] # f[j]}

\* ------------------------------------------------------------------------
\* State
\* ------------------------------------------------------------------------
VARIABLES
    fs,         \* the directory: file name -> the document stored under it
    pc,         \* position of the run
    pdf_files,  \* main: the enumerated names
    idx,        \* main: index of the file the loop is at
    results,    \* main: the report rows
    probe,      \* rename_pdf: the path is_pdf_encrypted took
    text,       \* rename_pdf: extract_text_from_pdf's result
    title,      \* rename_pdf locals
    author,
    new_path,
    counter,
    renames,    \* the os.rename calls that succeeded
    chats,      \* the loop indexes at which ollama.chat was called
    json_str,   \* the reply under repair (reply pipeline)
    stage,      \* position in the reply pipeline
    reply_src,  \* how the reply under repair was written (reply pipeline)
    parsed      \* the (title, author) the reply pipeline returned

vars == <<fs, pc, pdf_files, idx, results, probe, text, title, author, new_path,
          counter, renames, chats, json_str, stage, reply_src, parsed>>

run_vars == <<fs, pc, pdf_files, idx, results, probe, text, title, author, new_path,
              counter, renames, chats>>
reply_vars == <<json_str, stage, reply_src, parsed>>

pdf_path == pdf_files[idx]

Init ==
    /\ fs \in Directories
    /\ pc = "start"
    /\ pdf_files = <<>>
    /\ idx = 0
    /\ results = <<>>
    /\ probe = "none"
    /\ text = None
    /\ title = None
    /\ author = None
    /\ new_path = <<>>
    /\ counter = 0
    /\ renames = <<>>
    /\ chats = {}
    /\ json_str = <<>>
    /\ stage = "idle"
    /\ reply_src = NoReply
    /\ parsed = <<None, None>>

\* main, line 205: the names are listed once, before any rename
Listdir ==
    /\ pc = "start"
    /\ pdf_files' \in Orderings({n \in DOMAIN fs : endswith(n, <<".", "p", "d", "f">>)})
    /\ idx' = 1
    /\ pc' = "call"
    /\ UNCHANGED <<fs, results, probe, text, title, author, new_path, counter,
                   renames, chats, reply_vars>>

\* main line 213-215 entering rename_pdf, lines 171-173: extraction, and the
\* early return for an encrypted document (with main's lines 216-217)
Extract ==
    /\ pc = "call"
    /\ idx <= Len(pdf_files)
    /\ \E doc \in Documents :
         /\ probe' = doc[1]
         /\ text' = doc[2]
    /\ title' = None
    /\ author' = None
    /\ counter' = 0
    /\ IF text' = None
       THEN /\ results' = Append(results, <<pdf_path, <<"E", "n", "c", "r", "y", "p", "t", "e", "d">>, <<"E", "n", "c", "r", "y", "p", "t", "e", "d">>, pdf_path>>)
            /\ idx' = idx + 1
            /\ pc' = "call"
       ELSE /\ pc' = "infer"
            /\ UNCHANGED <<results, idx>>
    /\ new_path' = <<>>
    /\ UNCHANGED <<fs, pdf_files, renames, chats, reply_vars>>

\* lines 175-182: inference, the candidate name, the first existence test
Infer ==
    /\ pc = "infer"
    /\ \E reply \in Replies :
         LET fields == refine_with_llama3(text, reply)
         IN /\ title' = fields[1]
            /\ author' = fields[2]
    /\ chats' = IF calls_model(text) THEN chats \cup {idx} ELSE chats
    /\ new_path' = new_name_of(title', author')
    /\ IF path_exists(new_path', fs, pdf_path)
       THEN counter' = first_counter /\ pc' = "probe"
       ELSE counter' = 0 /\ pc' = "commit"
    /\ UNCHANGED <<fs, pdf_files, idx, results, probe, text, renames, reply_vars>>

\* lines 183-185: one test of the while condition
ProbeStep ==
    /\ pc = "probe"
    /\ IF path_exists(suffixed(new_path, counter), fs, pdf_path)
       THEN /\ counter' = counter + 1
            /\ UNCHANGED <<new_path, pc>>
       ELSE /\ new_path' = suffixed(new_path, counter)
            /\ pc' = "commit"
            /\ UNCHANGED counter
    /\ UNCHANGED <<fs, pdf_files, idx, results, probe, text, title, author,
                   renames, chats, reply_vars>>

\* lines 187-192 with main's lines 216-217, when os.rename succeeds or is
\* not called
Commit ==
    /\ pc = "commit"
    /\ IF should_rename(clean_author_of(author), clean_title_of(title))
       THEN /\ fs' = os_rename(fs, pdf_path, new_path)
            /\ renames' = Append(renames, [src |-> pdf_path, dst |-> new_path,
                                           doc |-> fs[pdf_path], at |-> idx,
                                           replaced |-> new_path \in DOMAIN fs])
            /\ UNCHANGED new_path
       ELSE /\ new_path' = pdf_path
            /\ UNCHANGED <<fs, renames>>
    /\ results' = Append(results, <<pdf_path, author, title, new_path'>>)
    /\ idx' = idx + 1
    /\ pc' = "call"
    /\ UNCHANGED <<pdf_files, probe, text, title, author, counter, chats, reply_vars>>

\* line 188 when os.rename raises: nothing catches the exception, neither in
\* rename_pdf nor in main (lines 213-217), and the process ends
RenameFails ==
    /\ pc = "commit"
    /\ should_rename(clean_author_of(author), clean_title_of(title))
    /\ pc' = "crashed"
    /\ UNCHANGED <<fs, pdf_files, idx, results, probe, text, title, author, new_path,
                   counter, renames, chats, reply_vars>>

\* lines 219-228: the loop is over and the table is printed
Report ==
    /\ pc = "call"
    /\ idx > Len(pdf_files)
    /\ pc' = "done"
    /\ UNCHANGED <<fs, pdf_files, idx, results, probe, text, title, author, new_path,
                   counter, renames, chats, reply_vars>>

Next == Listdir \/ Extract \/ Infer \/ ProbeStep \/ Commit \/ RenameFails \/ Report

Spec == Init /\ [][Next]_vars

\* the probe loop is always taken to its end; the loop is sequential code
\* and nothing else runs
FairSpec == Spec /\ WF_vars(ProbeStep)

\* ------------------------------------------------------------------------
\* Properties of a run
\* ------------------------------------------------------------------------
\* rename_pdf has returned to main: the locals are those of the call that
\* produced the last row
Returned == pc \in {"call", "done"} /\ Len(results) > 0
LastRow == results[Len(results)]
LastName == pdf_files[Len(results)]
\* os.rename was called, and succeeded, for the i-th enumerated file
RenamedAt(i) == \E k \in DOMAIN renames : renames[k].at = i
Candidate == new_name_of(title, author)
\* the suffixes 1, 2, ... not in use in a set of names
FreeSuffixes(name, names) ==
    {k \in 1..(Cardinality(names) + 1) : suffixed(name, k) \notin names}
\* the directory's names before the last call's rename
NamesBefore == IF RenamedAt(Len(results))
               THEN (DOMAIN fs \ {LastRow[4]}) \cup {LastName}
               ELSE DOMAIN fs

\* C1 as stated: a non-encrypted document whose title and author are both
\* absent is not renamed, stays at its path, and is reported under its
\* original name
C1_UnknownFieldsKeepName ==
    (Returned /\ text # None /\ title = None /\ author = None) =>
        /\ ~RenamedAt(Len(results))
        /\ LastName \in DOMAIN fs
        /\ LastRow[4] = LastRow[1]

\* C2 as stated: a failing os.rename does not end the batch, and the report
\* ends with one row per enumerated file
C2_RenameFailureContinues ==
    /\ pc # "crashed"
    /\ pc = "done" => Len(results) = Len(pdf_files)

\* C3 as stated: when extraction returns one of the two placeholders, title
\* and author are reported absent and the file is left at its path, whatever
\* the model answers
C3_NoTextLeavesFile ==
    (Returned /\ text \in {NoTextPlaceholder, ErrorPlaceholder}) =>
        /\ title = None
        /\ author = None
        /\ ~RenamedAt(Len(results))
        /\ LastName \in DOMAIN fs
        /\ LastRow[4] = LastRow[1]

\* the name C4 expects when one field is absent and the other is known
C4_Expected ==
    IF title = None
    THEN clean_filename(author) \o <<" ", "-", " ", "U", "n", "k", "n", "o", "w", "n", " ", "T", "i", "t", "l", "e", ".", "p", "d", "f">>
    ELSE <<"U", "n", "k", "n", "o", "w", "n", " ", "A", "u", "t", "h", "o", "r", " ", "-", " ">> \o clean_filename(title) \o <<".", "p", "d", "f">>

\* C4 as stated: with exactly one of title and author absent and the other
\* known, the file is renamed and the absent one appears in the final name
\* as "Unknown Title", respectively "Unknown Author" (a collision suffix
\* allowed)
C4_ComponentPlaceholder ==
    (/\ Returned
     /\ text # None
     /\ (title = None) # (author = None)
     /\ title = None => clean_filename(author) # <<>>
     /\ author = None => clean_filename(title) # <<>>) =>
        /\ RenamedAt(Len(results))
        /\ \/ LastRow[4] = C4_Expected
           \/ \E k \in 1..(Cardinality(DOMAIN fs) + 1) : LastRow[4] = suffixed(C4_Expected, k)

\* C5: every rename targets a path at which no file exists at that moment,
\* the number of files in the directory never changes, and no two rows of
\* the report carry the same final name
C5_NoOverwrite ==
    /\ [](/\ \A k \in DOMAIN renames : ~renames[k].replaced
          /\ \A i, j \in DOMAIN results : i # j => results[i][4] # results[j][4]
          /\ \A i \in DOMAIN results : results[i][4] \in DOMAIN fs)
    /\ [][/\ Cardinality(DOMAIN fs') = Cardinality(DOMAIN fs)
          /\ fs' # fs => /\ new_path \notin DOMAIN fs
                         /\ pdf_path \in DOMAIN fs
                         /\ DOMAIN fs' = (DOMAIN fs \ {pdf_path}) \cup {new_path}]_vars

\* two documents with identical inferred fields were both renamed
C5_Witness ==
    /\ pc = "done"
    /\ \E i, j \in DOMAIN results :
         /\ i < j
         /\ RenamedAt(i) /\ RenamedAt(j)
         /\ results[i][2] = results[j][2] /\ results[i][3] = results[j][3]
         /\ results[i][3] = <<"D", "e", "e", "p", " ", "L", "e", "a", "r", "n", "i", "n", "g">>
         /\ results[j][4] = suffixed(results[i][4], 1)

\* C6: no document is renamed twice; a rename moves the file enumerated at
\* its loop index; the file the loop is at exists under its enumerated name;
\* and a name produced by a rename is not the name of any file processed
\* later
C6_RenamedAtMostOnce ==
    /\ \A k, l \in DOMAIN renames : k # l => renames[k].doc # renames[l].doc
    /\ \A k \in DOMAIN renames : renames[k].src = pdf_files[renames[k].at]
    /\ (pc \in {"call", "infer", "probe", "commit"} /\ idx <= Len(pdf_files)) =>
          pdf_path \in DOMAIN fs
    /\ \A k \in DOMAIN renames :
          \A i \in (renames[k].at + 1)..Len(pdf_files) : pdf_files[i] # renames[k].dst

\* a rename produced the original name of a document handled earlier, and
\* the run ended
C6_Witness ==
    /\ pc = "done"
    /\ \E k \in DOMAIN renames :
         \E i \in 1..(renames[k].at - 1) :
            /\ pdf_files[i] = renames[k].dst
            /\ RenamedAt(i)

\* the path C7 describes for a candidate name
ProbeResult(name, names) ==
    IF name \notin names THEN name ELSE suffixed(name, MinOf(FreeSuffixes(name, names)))

\* C7: when the probe is over the new path is the candidate if no file is
\* there, else the candidate with the smallest unused suffix k >= 1; while
\* the probe runs every smaller suffix is in use, so the counter never
\* passes the number of files plus one; and the probe ends
C7_SequentialProbe ==
    /\ [](/\ pc = "commit" => new_path = ProbeResult(Candidate, DOMAIN fs)
          /\ pc = "probe" =>
                /\ new_path = Candidate
                /\ counter >= 1
                /\ counter <= Cardinality(DOMAIN fs) + 1
                /\ \A k \in 1..(counter - 1) : suffixed(new_path, k) \in DOMAIN fs)
    /\ (pc = "probe") ~> (pc = "commit")

\* X.pdf and X_1.pdf exist and the probe for the candidate X.pdf ended at
\* X_2.pdf
C7_Witness ==
    /\ pc = "commit"
    /\ Candidate = <<"J", "a", "n", "e", " ", "D", "o", "e", " ", "-", " ", "D", "e", "e", "p", " ", "L", "e", "a", "r", "n", "i", "n", "g", ".", "p", "d", "f">>
    /\ {Candidate, suffixed(Candidate, 1)} \subseteq DOMAIN fs
    /\ counter = 2
    /\ new_path = <<"J", "a", "n", "e", " ", "D", "o", "e", " ", "-", " ", "D", "e", "e", "p", " ", "L", "e", "a", "r", "n", "i", "n", "g", "_", "2", ".", "p", "d", "f">>

\* C8: a document the probe classifies as encrypted never reaches the
\* model or the rename: the call returns at once, the model is not called
\* for it, the file keeps its name, and the row is (name, "Encrypted",
\* "Encrypted", name)
C8_EncryptedShortCircuit ==
    probe \in {"B_flag_set", "B_open_fails"} =>
        /\ Returned
        /\ text = None
        /\ Len(results) \notin chats
        /\ ~RenamedAt(Len(results))
        /\ LastName \in DOMAIN fs
        /\ LastRow = <<LastName, <<"E", "n", "c", "r", "y", "p", "t", "e", "d">>, <<"E", "n", "c", "r", "y", "p", "t", "e", "d">>, LastName>>

\* backend A and backend B both failed to open the second file, after the
\* first one was renamed
C8_Witness ==
    /\ Returned
    /\ probe = "B_open_fails"
    /\ Len(results) = 2
    /\ RenamedAt(1)
    /\ LastRow[2] = <<"E", "n", "c", "r", "y", "p", "t", "e", "d">>

\* C10: a file whose name already is the candidate, or the candidate with a
\* suffix, is renamed again when the commit condition holds; when the name
\* is the candidate itself the new name is the candidate with the smallest
\* suffix k >= 1 unused in the directory, the file's own name counting as
\* used
C10_OwnPathCountsAsOccupied ==
    (/\ Returned
     /\ text # None
     /\ should_rename(clean_author_of(author), clean_title_of(title))
     /\ \/ LastName = Candidate
        \/ \E k \in 1..(Cardinality(DOMAIN fs) + 1) : LastName = suffixed(Candidate, k)) =>
        /\ RenamedAt(Len(results))
        /\ LastRow[4] # LastName
        /\ LastName \notin DOMAIN fs
        /\ LastRow[4] \in DOMAIN fs
        /\ LastName = Candidate =>
              LastRow[4] = suffixed(Candidate, MinOf(FreeSuffixes(Candidate, NamesBefore)))

\* a file named "Jane Doe - Deep Learning.pdf" whose inferred fields give
\* that very name was renamed to "Jane Doe - Deep Learning_1.pdf"
C10_Witness ==
    /\ Returned
    /\ LastName = <<"J", "a", "n", "e", " ", "D", "o", "e", " ", "-", " ", "D", "e", "e", "p", " ", "L", "e", "a", "r", "n", "i", "n", "g", ".", "p", "d", "f">>
    /\ Candidate = LastName
    /\ LastRow[4] = <<"J", "a", "n", "e", " ", "D", "o", "e", " ", "-", " ", "D", "e", "e", "p", " ", "L", "e", "a", "r", "n", "i", "n", "g", "_", "1", ".", "p", "d", "f">>
    /\ LastName \notin DOMAIN fs

\* ------------------------------------------------------------------------
\* The reply pipeline of refine_with_llama3, one line of code per step, on
\* the replies of ObjectReplies
\* ------------------------------------------------------------------------
ReplyInit ==
    /\ fs = [n \in {} |-> 0]
    /\ pc = "idle"
    /\ pdf_files = <<>>
    /\ idx = 0
    /\ results = <<>>
    /\ probe = "none"
    /\ text = None
    /\ title = None
    /\ author = None
    /\ new_path = <<>>
    /\ counter = 0
    /\ renames = <<>>
    /\ chats = {}
    /\ reply_src \in ObjectReplies
    /\ json_str = render(reply_src)
    /\ stage = "search"
    /\ parsed = <<None, None>>

\* lines 109-111 and 127
Search ==
    /\ stage = "search"
    /\ json_str' = search_braces(json_str)
    /\ stage' = IF json_str' = None THEN "done" ELSE "requote"
    /\ UNCHANGED <<run_vars, reply_src, parsed>>

\* line 113
Requote ==
    /\ stage = "requote"
    /\ json_str' = requote_keys(json_str)
    /\ stage' = "replace"
    /\ UNCHANGED <<run_vars, reply_src, parsed>>

\* line 114
ReplaceQuotes ==
    /\ stage = "replace"
    /\ json_str' = replace_quotes(json_str)
    /\ stage' = "quote_words"
    /\ UNCHANGED <<run_vars, reply_src, parsed>>

\* line 115
QuoteWords ==
    /\ stage = "quote_words"
    /\ json_str' = quote_words(json_str)
    /\ stage' = "commas"
    /\ UNCHANGED <<run_vars, reply_src, parsed>>

\* line 116
StripCommas ==
    /\ stage = "commas"
    /\ json_str' = strip_trailing_commas(json_str)
    /\ stage' = "loads"
    /\ UNCHANGED <<run_vars, reply_src, parsed>>

\* lines 118-126, and the except clause of lines 128-130
Loads ==
    /\ stage = "loads"
    /\ LET result == json_loads(json_str)
       IN parsed' = IF ~result.ok THEN <<None, None>>
                    ELSE <<cased_or_none(str_or_none(dict_get(result.val, <<"t", "i", "t", "l", "e">>))),
                           cased_or_none(str_or_none(dict_get(result.val, <<"a", "u", "t", "h", "o", "r">>)))>>
    /\ stage' = "done"
    /\ UNCHANGED <<run_vars, reply_src, json_str>>

ReplyNext == Search \/ Requote \/ ReplaceQuotes \/ QuoteWords \/ StripCommas \/ Loads

ReplySpec == ReplyInit /\ [][ReplyNext]_vars

\* the pipeline of ReplySpec ends with what refine_with_llama3 returns
ReplyPipelineAgrees ==
    stage = "done" => parsed = parse_reply(render(reply_src))

\* C9 as stated: every reply of ObjectReplies is parsed, and the title-cased
\* title and author come back, neither absent
C9_ObjectRepliesParsed ==
    stage = "done" =>
        /\ parsed[1] # None
        /\ parsed[2] # None
        /\ parsed = <<title_case(reply_src.title), title_case(reply_src.author)>>
====
